---------------------------- MODULE Spec2Model ----------------------------
(***************************************************************************)
(* A model of src/simplified_smm.c: a first-fit allocator over one mmap'ed *)
(* arena, with headers (struct MetaData, 9 bytes, packed) embedded in the  *)
(* arena itself, driven by the command loop of main.                       *)
(*                                                                         *)
(* The arena is modelled byte by byte.  A header is what the code reads at *)
(* an address: eight little-endian bytes of size_t and one status byte.    *)
(* The block list is not a variable; it is what the walk of mm_print,      *)
(* mm_malloc and mm_combine_nearby_free finds in the bytes.                *)
(***************************************************************************)
EXTENDS Integers, Sequences, FiniteSets, TLC

(***************************************************************************)
(* Bounds.  The program's arena has 8000 bytes, 26 names and up to 100     *)
(* commands; the model keeps the code and scales these numbers down.       *)
(***************************************************************************)
\* const int HEAP_SIZE (8000 in the source), scaled down
HEAP_SIZE == 44
\* bytes mapped after heap_end: mmap maps whole pages (8192 - 8000 in the source build)
PagePad == 8
\* const int MAX_POINTERS (26 in the source), scaled down
MAX_POINTERS == 4
\* largest block_size a command asks for
MaxSize == 40
\* sz_operations, the number of commands of the script (at most MAX_OPERATIONS = 100)
MaxOps == 8
\* the address mmap returns
HeapBase == 16
\* direct calls of mm_sbrk by a client other than mm_malloc
MaxCalls == 2

(***************************************************************************)
(* Program constants.                                                      *)
(***************************************************************************)
meta_data_size == 9
META_DATA_STATUS_FREE == 102
META_DATA_STATUS_OCCUPIED == 111
SPACE == 32
NULL == 0
MAP_FAILED == -1

VARIABLES heap_start, heap_end, heap_current_break, mem, pointers, pc, i, calls, last,
          reach

vars == <<heap_start, heap_end, heap_current_break, mem, pointers, pc, i, calls, last, reach>>

Names == 1..MAX_POINTERS
SizeInputs == {2, 3, 4, 5, 10, MaxSize}

\* the addresses the mapping of mmap(NULL, HEAP_SIZE, ...) makes accessible
MapLen == HEAP_SIZE + PagePad
MappedAddrs == HeapBase..(HeapBase + MapLen - 1)
Mapped(a, n) == a >= HeapBase /\ a + n <= HeapBase + MapLen

(***************************************************************************)
(* size_t: 64 bits, kept as four 16-bit limbs, least significant first.    *)
(***************************************************************************)
Limb == 256 * 256
U64(n) == <<n % Limb, (n \div Limb) % Limb, 0, 0>>
IsSmall(u) == u[2] = 0 /\ u[3] = 0 /\ u[4] = 0

Add64(x, y) ==
  LET s1 == x[1] + y[1]
      s2 == x[2] + y[2] + (s1 \div Limb)
      s3 == x[3] + y[3] + (s2 \div Limb)
      s4 == x[4] + y[4] + (s3 \div Limb)
  IN  <<s1 % Limb, s2 % Limb, s3 % Limb, s4 % Limb>>

Sub64(x, y) ==
  LET d1 == x[1] - y[1]
      b1 == IF d1 < 0 THEN 1 ELSE 0
      d2 == x[2] - y[2] - b1
      b2 == IF d2 < 0 THEN 1 ELSE 0
      d3 == x[3] - y[3] - b2
      b3 == IF d3 < 0 THEN 1 ELSE 0
      d4 == x[4] - y[4] - b3
      b4 == IF d4 < 0 THEN 1 ELSE 0
  IN  <<d1 + b1 * Limb, d2 + b2 * Limb, d3 + b3 * Limb, d4 + b4 * Limb>>

Gt64(x, y) ==
  \/ x[4] > y[4]
  \/ x[4] = y[4] /\ x[3] > y[3]
  \/ x[4] = y[4] /\ x[3] = y[3] /\ x[2] > y[2]
  \/ x[4] = y[4] /\ x[3] = y[3] /\ x[2] = y[2] /\ x[1] > y[1]

Ge64(x, y) == x = y \/ Gt64(x, y)

\* (int) of a size_t: the low 32 bits, two's complement
ToInt(u) == IF u[2] >= 32768 THEN u[1] + Limb * (u[2] - Limb) ELSE u[1] + Limb * u[2]

\* byte k (0 = least significant) of a size_t
ByteOf(u, k) == LET l == u[(k \div 2) + 1] IN IF k % 2 = 0 THEN l % 256 ELSE l \div 256

(***************************************************************************)
(* Pointer arithmetic p + u for a size_t u.  Addresses of the arena are    *)
(* small numbers in the model; a sum that leaves the 16-bit range is far   *)
(* above every address of the process, and one that wraps around 2^64 is   *)
(* below heap_start (user addresses are below 2^47).                       *)
(***************************************************************************)
FarHigh == HeapBase + MapLen + Limb
WildLow == HeapBase - 1
PtrAdd(p, u) ==
  IF IsSmall(u) THEN p + u[1]
  ELSE IF u[4] = Limb - 1 /\ u[3] >= 32768 THEN WildLow
  ELSE FarHigh

(***************************************************************************)
(* Memory: loads and stores of the fields of struct MetaData.  mem holds   *)
(* the bytes of the mapping.  The code can store past the end of it (see   *)
(* MallocGrow): such a store gets SIGSEGV or lands in whatever the process *)
(* has mapped there, and the run finds out which when it happens.  reach   *)
(* is the end of the addresses the run has found writable so far; the      *)
(* bytes stored past the mapping are never loaded and are not kept.        *)
(***************************************************************************)
LoadSize(m, a) ==
  <<m[a] + 256 * m[a + 1], m[a + 2] + 256 * m[a + 3],
    m[a + 4] + 256 * m[a + 5], m[a + 6] + 256 * m[a + 7]>>
LoadStatus(m, a) == m[a + 8]

StoreSize(m, a, u) ==
  IF Mapped(a, 8)
    THEN [m EXCEPT ![a] = u[1] % 256, ![a + 1] = u[1] \div 256,
                   ![a + 2] = u[2] % 256, ![a + 3] = u[2] \div 256,
                   ![a + 4] = u[3] % 256, ![a + 5] = u[3] \div 256,
                   ![a + 6] = u[4] % 256, ![a + 7] = u[4] \div 256]
    ELSE [x \in DOMAIN m |-> IF a <= x /\ x <= a + 7 THEN ByteOf(u, x - a) ELSE m[x]]
StoreStatus(m, a, c) ==
  IF Mapped(a + 8, 1) THEN [m EXCEPT ![a + 8] = c] ELSE m
\* target[j] = ' ' for j < n
Fill(m, a, n) ==
  [x \in DOMAIN m |-> IF a <= x /\ x < a + n THEN SPACE ELSE m[x]]

(***************************************************************************)
(* Faulty variants of mm_sbrk: one that never refuses to grow, one that    *)
(* returns the break after the move.                                       *)
(***************************************************************************)
sbrk_unbounded(brk, sz) ==
  IF heap_start = NULL \/ heap_end = NULL \/ brk = NULL
    THEN [brk |-> brk, ret |-> MAP_FAILED]
  ELSE IF sz >= 0 \/ sz >= heap_start - brk
    THEN [brk |-> brk + sz, ret |-> brk]
  ELSE [brk |-> brk, ret |-> MAP_FAILED]

sbrk_new_break(brk, sz) ==
  IF heap_start = NULL \/ heap_end = NULL \/ brk = NULL
    THEN [brk |-> brk, ret |-> MAP_FAILED]
  ELSE IF (sz >= 0 /\ sz <= heap_end - brk) \/ (sz < 0 /\ sz >= heap_start - brk)
    THEN [brk |-> brk + sz, ret |-> brk + sz]
  ELSE [brk |-> brk, ret |-> MAP_FAILED]

(***************************************************************************)
(* mm_sbrk: the new break and the returned pointer.                        *)
(***************************************************************************)
mm_sbrk(brk, sz) ==
  IF heap_start = NULL \/ heap_end = NULL \/ brk = NULL
    THEN [brk |-> brk, ret |-> MAP_FAILED]
  ELSE IF sz = 0
    THEN [brk |-> brk, ret |-> brk]
  ELSE IF sz > 0 /\ sz <= heap_end - brk
    THEN [brk |-> brk + sz, ret |-> brk]
  ELSE IF sz < 0 /\ sz >= heap_start - brk
    THEN [brk |-> brk + sz, ret |-> brk]
  ELSE [brk |-> brk, ret |-> MAP_FAILED]

(***************************************************************************)
(* mm_print: the blocks the walk from heap_start finds below the break.    *)
(***************************************************************************)
RECURSIVE Walk(_, _, _)
Walk(m, cur, brk) ==
  IF ~(cur < brk) \/ ~Mapped(cur, meta_data_size) THEN <<>>
  ELSE <<[addr |-> cur, size |-> LoadSize(m, cur), status |-> LoadStatus(m, cur)]>>
       \o Walk(m, PtrAdd(cur, Add64(U64(meta_data_size), LoadSize(m, cur))), brk)

Blocks(m, brk) == IF heap_start = NULL THEN <<>> ELSE Walk(m, heap_start, brk)

\* where the walk stops: the first cur that is not below the break
RECURSIVE WalkEnd(_, _, _)
WalkEnd(m, cur, brk) ==
  IF ~(cur < brk) \/ ~Mapped(cur, meta_data_size) THEN cur
  ELSE WalkEnd(m, PtrAdd(cur, Add64(U64(meta_data_size), LoadSize(m, cur))), brk)

\* the line mm_print prints for a block
Describe(b) ==
  <<IF b.status = META_DATA_STATUS_FREE THEN "FREE" ELSE "OCCP", b.size>>
mm_print(m, brk) == [k \in 1..Len(Blocks(m, brk)) |-> Describe(Blocks(m, brk)[k])]

(***************************************************************************)
(* mm_malloc.                                                              *)
(***************************************************************************)
\* a faulty variant: a fitting block is never split
split_never(mdsize, size) == FALSE

\* a faulty variant: the header of the new block is forgotten
split_without_header(mdsize, size) == Gt64(mdsize, U64(size))

enoughToSplit(mdsize, size) == Gt64(mdsize, Add64(U64(size), U64(meta_data_size)))

RECURSIVE MallocScan(_, _, _, _, _)
MallocScan(m, cur, cur_heap_break, size, lastBlock) ==
  IF ~(cur < cur_heap_break)
    THEN [hit |-> FALSE, cur |-> cur, lastBlock |-> lastBlock, segv |-> FALSE]
  ELSE IF ~Mapped(cur, meta_data_size)
    THEN [hit |-> FALSE, cur |-> cur, lastBlock |-> lastBlock, segv |-> TRUE]
  ELSE IF LoadStatus(m, cur) = META_DATA_STATUS_FREE /\ Ge64(LoadSize(m, cur), U64(size))
    THEN [hit |-> TRUE, cur |-> cur, lastBlock |-> lastBlock, segv |-> FALSE]
  ELSE MallocScan(m, PtrAdd(cur, Add64(U64(meta_data_size), LoadSize(m, cur))),
                  cur_heap_break, size, cur)

\* a faulty variant of the first-fit branch: the new block's size is
\* md->size - size, its own header not taken off
fit_rest_with_header(m, brk, cur, size, rch, flt) ==
  LET mdsize == LoadSize(m, cur)
      new_md == cur + meta_data_size + size
      split == Gt64(mdsize, Add64(U64(size), U64(meta_data_size)))
      oob == split /\ new_md + meta_data_size > rch
      m0 == StoreSize(m, new_md, Sub64(mdsize, U64(size)))
      m1 == IF split
              THEN StoreSize(StoreStatus(m0, new_md, META_DATA_STATUS_FREE), cur, U64(size))
              ELSE m
  IN  IF oob /\ flt
        THEN [mem |-> IF new_md + 8 > rch THEN m ELSE m0,
              brk |-> brk, ret |-> NULL, segv |-> TRUE, oob |-> TRUE, reach |-> rch,
              path |-> "split"]
        ELSE [mem |-> StoreStatus(m1, cur, META_DATA_STATUS_OCCUPIED),
              brk |-> brk,
              ret |-> cur + meta_data_size,
              segv |-> FALSE,
              oob |-> oob,
              reach |-> IF oob THEN new_md + meta_data_size ELSE rch,
              path |-> IF split THEN "split" ELSE "reuse"]

\* the first-fit branch: the block at cur is FREE and large enough.  The
\* stores to new_md may lie past rch, and then they fault (flt) or succeed.
MallocFit(m, brk, cur, size, rch, flt) ==
  LET mdsize == LoadSize(m, cur)
      new_md == cur + meta_data_size + size
      split == enoughToSplit(mdsize, size)
      oob == split /\ new_md + meta_data_size > rch
      m0 == StoreSize(m, new_md, Sub64(Sub64(mdsize, U64(size)), U64(meta_data_size)))
      m1 == IF split
              THEN StoreSize(StoreStatus(m0, new_md, META_DATA_STATUS_FREE), cur, U64(size))
              ELSE m
  IN  IF oob /\ flt
        THEN [mem |-> IF new_md + 8 > rch THEN m ELSE m0,
              brk |-> brk, ret |-> NULL, segv |-> TRUE, oob |-> TRUE, reach |-> rch,
              path |-> "split"]
        ELSE [mem |-> StoreStatus(m1, cur, META_DATA_STATUS_OCCUPIED),
              brk |-> brk,
              ret |-> cur + meta_data_size,
              segv |-> FALSE,
              oob |-> oob,
              reach |-> IF oob THEN new_md + meta_data_size ELSE rch,
              path |-> IF split THEN "split" ELSE "reuse"]

\* no block fits, and the list is empty or its last block is OCCUPIED
MallocAppend(m, brk, size, rch) ==
  LET r == mm_sbrk(brk, size + meta_data_size)
      start == r.ret
  IN  IF start = MAP_FAILED
        \* md->size = size stores through (void *) -1: the process gets SIGSEGV
        THEN [mem |-> m, brk |-> r.brk, ret |-> NULL, segv |-> TRUE, oob |-> FALSE,
              reach |-> rch, path |-> "append_failed"]
        ELSE [mem |-> StoreStatus(StoreSize(m, start, U64(size)), start,
                                  META_DATA_STATUS_OCCUPIED),
              brk |-> r.brk, ret |-> start + meta_data_size, segv |-> FALSE, oob |-> FALSE,
              reach |-> rch, path |-> "append"]

\* a faulty variant of the growth of the last block: the break moves by
\* size + meta_data_size, as for a new block
grow_as_new_block(m, brk, lastBlock, size, rch) ==
  LET r == mm_sbrk(brk, size + meta_data_size)
  IN  [mem |-> StoreStatus(StoreSize(m, lastBlock, U64(size)), lastBlock,
                           META_DATA_STATUS_OCCUPIED),
       brk |-> r.brk, ret |-> lastBlock + meta_data_size, segv |-> FALSE, oob |-> FALSE,
       reach |-> rch, path |-> IF r.ret = MAP_FAILED THEN "grow_failed" ELSE "grow"]

\* no block fits, and the last block is not OCCUPIED
MallocGrow(m, brk, lastBlock, size, rch) ==
  LET remainingSize == ToInt(Sub64(U64(size), LoadSize(m, lastBlock)))
      r == mm_sbrk(brk, remainingSize)
  IN  [mem |-> StoreStatus(StoreSize(m, lastBlock, U64(size)), lastBlock,
                           META_DATA_STATUS_OCCUPIED),
       brk |-> r.brk, ret |-> lastBlock + meta_data_size, segv |-> FALSE, oob |-> FALSE,
       reach |-> rch, path |-> IF r.ret = MAP_FAILED THEN "grow_failed" ELSE "grow"]

\* rch: the end of the writable addresses; flt: a store past rch faults
mm_malloc(m, brk, size, rch, flt) ==
  LET sc == CHOOSE x \in {MallocScan(m, heap_start, brk, size, NULL)} : TRUE
  IN  IF sc.segv
        THEN [mem |-> m, brk |-> brk, ret |-> NULL, segv |-> TRUE, oob |-> FALSE,
              reach |-> rch, path |-> "scan"]
      ELSE IF sc.hit THEN MallocFit(m, brk, sc.cur, size, rch, flt)
      ELSE IF sc.lastBlock = NULL
              \/ LoadStatus(m, sc.lastBlock) = META_DATA_STATUS_OCCUPIED
        THEN MallocAppend(m, brk, size, rch)
      ELSE MallocGrow(m, brk, sc.lastBlock, size, rch)

(***************************************************************************)
(* mm_free.                                                                *)
(***************************************************************************)
mm_free(m, p) == StoreStatus(m, p - meta_data_size, META_DATA_STATUS_FREE)

(***************************************************************************)
(* mm_combine_nearby_free: the outer loop over cur, the inner loop that    *)
(* absorbs the successors of a FREE block.  The result is the memory and   *)
(* whether a load left the mapping.                                        *)
(***************************************************************************)
RECURSIVE CombineLoop(_, _, _)
CombineLoop(m, cur, cur_heap_break) ==
  IF ~(cur < cur_heap_break) THEN [mem |-> m, segv |-> FALSE]
  ELSE IF ~Mapped(cur, meta_data_size) THEN [mem |-> m, segv |-> TRUE]
  ELSE IF LoadStatus(m, cur) = META_DATA_STATUS_FREE
    THEN LET next == PtrAdd(cur, Add64(U64(meta_data_size), LoadSize(m, cur)))
         IN  IF next < cur_heap_break
               THEN IF ~Mapped(next, meta_data_size) THEN [mem |-> m, segv |-> TRUE]
                    ELSE IF LoadStatus(m, next) = META_DATA_STATUS_FREE
                      THEN CombineLoop(
                             StoreSize(m, cur,
                               Add64(LoadSize(m, cur),
                                     Add64(U64(meta_data_size), LoadSize(m, next)))),
                             cur, cur_heap_break)
                    ELSE CombineLoop(m, next, cur_heap_break)
               ELSE [mem |-> m, segv |-> FALSE]
  ELSE CombineLoop(m, PtrAdd(cur, Add64(U64(meta_data_size), LoadSize(m, cur))),
                   cur_heap_break)

\* a faulty variant: the absorbed header is not added to the size
RECURSIVE CombineNoHeader(_, _, _)
CombineNoHeader(m, cur, cur_heap_break) ==
  IF ~(cur < cur_heap_break) THEN [mem |-> m, segv |-> FALSE]
  ELSE IF ~Mapped(cur, meta_data_size) THEN [mem |-> m, segv |-> TRUE]
  ELSE IF LoadStatus(m, cur) = META_DATA_STATUS_FREE
    THEN LET next == PtrAdd(cur, Add64(U64(meta_data_size), LoadSize(m, cur)))
         IN  IF next < cur_heap_break
               THEN IF ~Mapped(next, meta_data_size) THEN [mem |-> m, segv |-> TRUE]
                    ELSE IF LoadStatus(m, next) = META_DATA_STATUS_FREE
                      THEN CombineNoHeader(
                             StoreSize(m, cur, Add64(LoadSize(m, cur), LoadSize(m, next))),
                             cur, cur_heap_break)
                    ELSE CombineNoHeader(m, next, cur_heap_break)
               ELSE [mem |-> m, segv |-> FALSE]
  ELSE CombineNoHeader(m, PtrAdd(cur, Add64(U64(meta_data_size), LoadSize(m, cur))),
                       cur_heap_break)
combine_no_header(m, brk) == CombineNoHeader(m, heap_start, brk)

\* a faulty variant: the next block is absorbed before its status is looked
\* at, and the pass moves on when it was not FREE
RECURSIVE CombineEager(_, _, _)
CombineEager(m, cur, cur_heap_break) ==
  IF ~(cur < cur_heap_break) THEN [mem |-> m, segv |-> FALSE]
  ELSE IF ~Mapped(cur, meta_data_size) THEN [mem |-> m, segv |-> TRUE]
  ELSE IF LoadStatus(m, cur) = META_DATA_STATUS_FREE
    THEN LET next == PtrAdd(cur, Add64(U64(meta_data_size), LoadSize(m, cur)))
             m1 == StoreSize(m, cur,
                     Add64(LoadSize(m, cur), Add64(U64(meta_data_size), LoadSize(m, next))))
         IN  IF next < cur_heap_break
               THEN IF ~Mapped(next, meta_data_size) THEN [mem |-> m, segv |-> TRUE]
                    ELSE IF LoadStatus(m, next) = META_DATA_STATUS_FREE
                      THEN CombineEager(m1, cur, cur_heap_break)
                    ELSE CombineEager(m1,
                           PtrAdd(cur, Add64(U64(meta_data_size), LoadSize(m1, cur))),
                           cur_heap_break)
               ELSE [mem |-> m, segv |-> FALSE]
  ELSE CombineEager(m, PtrAdd(cur, Add64(U64(meta_data_size), LoadSize(m, cur))),
                    cur_heap_break)
combine_eager(m, brk) == CombineEager(m, heap_start, brk)

mm_combine_nearby_free(m, brk) == CombineLoop(m, heap_start, brk)

(***************************************************************************)
(* main: the command loop.  A name is an index into pointers and nothing   *)
(* else, so the script's choice among the unbound names (and, for the      *)
(* malloc error, among the bound ones) does not matter: the model lets a   *)
(* command name the lowest unbound name, the lowest bound name (malloc) or *)
(* any bound name (free).                                                  *)
(***************************************************************************)
Lowest(S) == {n \in S : \A k \in S : n <= k}
Bound == {n \in Names : pointers[n] # NULL}
MallocNames == Lowest(Names \ Bound) \cup Lowest(Bound)
FreeNames == Lowest(Names \ Bound) \cup Bound

\* what the last command did: the history the properties read.  fault says
\* where the command got SIGSEGV: in the call of the allocator ("call"), in
\* main's fill of the payload after the call had returned ("fill"), or not
\* at all ("none").
NoOp == [op |-> "none", size |-> 0, ret |-> NULL, path |-> "none", fault |-> "none"]

Init ==
  /\ heap_start = NULL
  /\ heap_end = NULL
  /\ heap_current_break = NULL
  /\ mem = [a \in MappedAddrs |-> 0]
  /\ pointers = [n \in Names |-> NULL]
  /\ pc = "start"
  /\ i = 0
  /\ calls = 0
  /\ last = NoOp
  /\ reach = 0

\* heap_start = mmap(...); heap_current_break = heap_start; heap_end = heap_start + HEAP_SIZE
Mmap ==
  /\ pc = "start"
  /\ heap_start' = HeapBase
  /\ heap_current_break' = HeapBase
  /\ heap_end' = HeapBase + HEAP_SIZE
  /\ reach' = HeapBase + MapLen
  /\ pc' = "run"
  /\ UNCHANGED <<mem, pointers, i, calls, last>>

\* SIGSEGV: the process stops where it is, with the memory and the break it has
Crash(what, m, brk) ==
  /\ pc' = "crashed"
  /\ last' = what
  /\ mem' = m
  /\ heap_current_break' = brk
  /\ UNCHANGED <<heap_start, heap_end, pointers, i, calls, reach>>

\* one iteration of the command loop on "malloc <name> <size>"
OpMalloc(name, size) ==
  /\ pc = "run"
  /\ i < MaxOps
  /\ IF pointers[name] # NULL
       THEN /\ last' = [NoOp EXCEPT !.op = "malloc_error"]
            /\ i' = i + 1
            /\ UNCHANGED <<heap_start, heap_end, heap_current_break, mem, pointers, pc,
                           calls, reach>>
       ELSE \E r0 \in {mm_malloc(mem, heap_current_break, size, reach, FALSE)} :
            \E flt \in (IF r0.oob THEN BOOLEAN ELSE {FALSE}) :
            \E r \in {IF flt THEN mm_malloc(mem, heap_current_break, size, reach, TRUE)
                              ELSE r0} :
            LET what == [op |-> "malloc", size |-> size, ret |-> r.ret, path |-> r.path,
                         fault |-> "none"]
                \* target[j] = ' ' runs past the writable addresses
                outside == r.ret + size > r.reach
            IN  IF r.segv
                  THEN Crash([what EXCEPT !.fault = "call"], r.mem, r.brk)
                  ELSE \E fillflt \in (IF outside THEN BOOLEAN ELSE {FALSE}) :
                       IF fillflt
                         THEN Crash([what EXCEPT !.fault = "fill"],
                                    Fill(r.mem, r.ret, size), r.brk)
                         ELSE /\ mem' = Fill(r.mem, r.ret, size)
                              /\ heap_current_break' = r.brk
                              /\ pointers' = [pointers EXCEPT ![name] = r.ret]
                              /\ last' = what
                              /\ i' = i + 1
                              /\ reach' = IF outside THEN r.ret + size ELSE r.reach
                              /\ UNCHANGED <<heap_start, heap_end, pc, calls>>

\* a faulty variant of the free command: the name is not looked up first
free_unchecked(name) ==
  /\ pc = "run"
  /\ i < MaxOps
  /\ i' = i + 1
  /\ mem' = mm_free(mem, pointers[name])
  /\ pointers' = [pointers EXCEPT ![name] = NULL]
  /\ last' = [NoOp EXCEPT !.op = "free", !.ret = pointers[name]]
  /\ UNCHANGED <<heap_start, heap_end, heap_current_break, pc, calls, reach>>

\* one iteration of the command loop on "free <name>"
OpFree(name) ==
  /\ pc = "run"
  /\ i < MaxOps
  /\ i' = i + 1
  /\ IF pointers[name] = NULL
       THEN /\ last' = [NoOp EXCEPT !.op = "free_error"]
            /\ UNCHANGED <<heap_start, heap_end, heap_current_break, mem, pointers, pc,
                           calls, reach>>
       ELSE /\ mem' = mm_free(mem, pointers[name])
            /\ pointers' = [pointers EXCEPT ![name] = NULL]
            /\ last' = [NoOp EXCEPT !.op = "free", !.ret = pointers[name]]
            /\ UNCHANGED <<heap_start, heap_end, heap_current_break, pc, calls, reach>>

\* one iteration of the command loop on "combine_nearby_free"
OpCombine ==
  /\ pc = "run"
  /\ i < MaxOps
  /\ LET r == mm_combine_nearby_free(mem, heap_current_break)
         what == [NoOp EXCEPT !.op = "combine",
                              !.path = IF last.op = "combine" THEN "again" ELSE "first"]
     IN  IF r.segv
           THEN Crash([what EXCEPT !.fault = "call"], r.mem, heap_current_break)
           ELSE /\ mem' = r.mem
                /\ last' = what
                /\ i' = i + 1
                /\ UNCHANGED <<heap_start, heap_end, heap_current_break, pointers, pc,
                               calls, reach>>

Next ==
  \/ Mmap
  \/ \E name \in MallocNames, size \in SizeInputs : OpMalloc(name, size)
  \/ \E name \in FreeNames : OpFree(name)
  \/ OpCombine

Spec == Init /\ [][Next]_vars

(***************************************************************************)
(* A client that also calls mm_sbrk itself, with any int, at any time      *)
(* (before the arena exists too).                                          *)
(***************************************************************************)
Deltas == {0 - (HEAP_SIZE + 1), 0 - meta_data_size, 0, meta_data_size, HEAP_SIZE + 1}

SbrkCall(sz) ==
  /\ pc \in {"start", "run"}
  /\ i < MaxOps
  /\ calls < MaxCalls
  /\ i' = i + 1
  /\ calls' = calls + 1
  /\ heap_current_break' = mm_sbrk(heap_current_break, sz).brk
  /\ last' = [NoOp EXCEPT !.op = "sbrk", !.size = sz,
                          !.ret = mm_sbrk(heap_current_break, sz).ret]
  /\ UNCHANGED <<heap_start, heap_end, mem, pointers, pc, reach>>

\* the block sizes this client's script asks for
SbrkSizes == {2, 3, 10, MaxSize}

SbrkNext ==
  \/ Mmap
  \/ \E name \in MallocNames, size \in SbrkSizes : OpMalloc(name, size)
  \/ \E name \in FreeNames : OpFree(name)
  \/ OpCombine
  \/ \E sz \in Deltas : SbrkCall(sz)

SbrkSpec == Init /\ [][SbrkNext]_vars

(***************************************************************************)
(* The block list as the properties read it.                               *)
(***************************************************************************)
B == Blocks(mem, heap_current_break)
IsFree(b) == b.status = META_DATA_STATUS_FREE
IsOccupied(b) == b.status = META_DATA_STATUS_OCCUPIED

\* the step is a command of the given kind, run to its end or to a crash
Did(op) == last'.op = op /\ (i' = i + 1 \/ (pc = "run" /\ pc' = "crashed"))
Returned(op) == last'.op = op /\ i' = i + 1

\* the FREE blocks of the list bs with room for n bytes, and the first of them
FitSet(bs, n) == {k \in 1..Len(bs) : IsFree(bs[k]) /\ Ge64(bs[k].size, U64(n))}
FirstFit(bs, n) == CHOOSE k \in FitSet(bs, n) : \A j \in FitSet(bs, n) : k <= j
\* the growth allocate(n) needs when no block of bs fits
Growth(bs, n) ==
  IF bs # <<>> /\ IsFree(bs[Len(bs)]) THEN n - bs[Len(bs)].size[1] ELSE n + meta_data_size
\* the walk over the list ends on the break
Contiguous == WalkEnd(mem, heap_start, heap_current_break) = heap_current_break

\* C1: walking from heap_start by meta_data_size + size lands exactly on
\* heap_current_break, in every state main reaches.
C1_Contiguity == pc # "start" => Contiguous

\* C2: an allocate(n) that finds no fitting FREE block and whose growth would
\* pass heap_end fails (returns an error to its caller) and changes neither
\* the break nor any byte of the arena.
C2_Exhaustion ==
  [][Did("malloc") =>
       \A bs \in {B} :
         (FitSet(bs, last'.size) = {}
            /\ Growth(bs, last'.size) > heap_end - heap_current_break)
           => /\ pc' = "run"
              /\ last'.ret \in {NULL, MAP_FAILED}
              /\ heap_current_break' = heap_current_break
              /\ mem' = mem]_vars

\* C3: heap_start <= heap_current_break <= heap_end in every state, whatever
\* mm_sbrk is called with and whatever allocate, free and coalesce do.
C3_BreakBounds ==
  heap_start <= heap_current_break /\ heap_current_break <= heap_end

\* C3's case: the break is strictly inside the arena after a refused mm_sbrk call
C3_Witness ==
  /\ last.op = "sbrk" /\ last.ret = MAP_FAILED /\ pc = "run"
  /\ heap_start < heap_current_break /\ heap_current_break < heap_end

\* the block list seen after a step, and what mm_print shows before and after it
BNext == Blocks(mem', heap_current_break')
Shown == mm_print(mem, heap_current_break)
ShownNext == mm_print(mem', heap_current_break')

\* C4: when a FREE block of size >= n exists, allocate(n) returns the payload
\* of the lowest-address one, marks it OCCUPIED and leaves the break alone.
C4_FirstFit ==
  [][Did("malloc") =>
       \A bs \in {B} : \A n \in {last'.size} :
         FitSet(bs, n) # {} =>
           \A b \in {bs[FirstFit(bs, n)]} :
             /\ last'.fault # "call"
             /\ last'.ret = b.addr + meta_data_size
             /\ LoadStatus(mem', b.addr) = META_DATA_STATUS_OCCUPIED
             /\ heap_current_break' = heap_current_break]_vars

\* C4's case: FREE blocks of sizes 2, 10, 5 and allocate(4): the block of size 10 is taken
C4_Witness ==
  /\ last.op = "malloc" /\ last.size = 4 /\ last.path = "reuse"
  /\ Shown = <<<<"FREE", U64(2)>>, <<"OCCP", U64(10)>>, <<"FREE", U64(5)>>>>
  /\ last.ret = B[2].addr + meta_data_size

\* the bytes a step has changed lie in the set S
OnlyWrites(S) == \A a \in MappedAddrs : a \in S \/ mem'[a] = mem[a]

\* C5: an allocate(n) satisfied by the FREE block b of size S.  If
\* S > n + meta_data_size the header of b gets size n and OCCUPIED, a header
\* with FREE and size S - n - meta_data_size stands right after the n payload
\* bytes, and it ends where b ended; in a contiguous list the two blocks
\* take the place of b.  Otherwise b keeps its size, becomes OCCUPIED, and
\* nothing but its status byte and its payload is written.
C5_Split ==
  [][(Did("malloc") /\ last'.fault # "call") =>
       \A bs \in {B} : \A n \in {last'.size} :
         FitSet(bs, n) # {} =>
           \A k \in {FirstFit(bs, n)} : \A b \in {bs[k]} :
           \A new \in {b.addr + meta_data_size + n} :
           \A rest \in {Sub64(b.size, U64(n + meta_data_size))} :
             IF Gt64(b.size, U64(n + meta_data_size))
               THEN /\ LoadSize(mem', b.addr) = U64(n)
                    /\ LoadStatus(mem', b.addr) = META_DATA_STATUS_OCCUPIED
                    /\ Mapped(new, meta_data_size)
                         => /\ LoadSize(mem', new) = rest
                            /\ LoadStatus(mem', new) = META_DATA_STATUS_FREE
                            /\ PtrAdd(new, Add64(U64(meta_data_size), LoadSize(mem', new)))
                                 = PtrAdd(b.addr, Add64(U64(meta_data_size), b.size))
                    /\ Contiguous
                         => BNext = SubSeq(bs, 1, k - 1)
                              \o <<[addr |-> b.addr, size |-> U64(n),
                                    status |-> META_DATA_STATUS_OCCUPIED],
                                   [addr |-> new, size |-> rest,
                                    status |-> META_DATA_STATUS_FREE]>>
                              \o SubSeq(bs, k + 1, Len(bs))
               ELSE /\ LoadSize(mem', b.addr) = b.size
                    /\ LoadStatus(mem', b.addr) = META_DATA_STATUS_OCCUPIED
                    /\ OnlyWrites({b.addr + 8}
                                    \cup (b.addr + meta_data_size)..(b.addr + meta_data_size + n - 1))]_vars

\* C5's case: a split has left a FREE remainder behind the block handed out
C5_Witness ==
  /\ last.op = "malloc" /\ last.path = "split" /\ pc = "run"
  /\ \E k \in 1..(Len(B) - 1) :
       /\ B[k].addr + meta_data_size = last.ret
       /\ B[k].size = U64(last.size) /\ IsOccupied(B[k])
       /\ IsFree(B[k + 1])

\* what coalescing is to make of a block list: every run of FREE blocks
\* becomes one block that spans the run
RECURSIVE Merged(_)
Merged(seq) ==
  IF Len(seq) < 2 THEN seq
  ELSE IF IsFree(seq[1]) /\ IsFree(seq[2])
    THEN Merged(<<[addr |-> seq[1].addr,
                   size |-> Add64(seq[1].size, Add64(U64(meta_data_size), seq[2].size)),
                   status |-> META_DATA_STATUS_FREE]>> \o Tail(Tail(seq)))
  ELSE <<seq[1]>> \o Merged(Tail(seq))

NoAdjacentFree(seq) == \A k \in 1..(Len(seq) - 1) : ~(IsFree(seq[k]) /\ IsFree(seq[k + 1]))

\* C6: after coalesce no two neighbours are both FREE, and every maximal run
\* of FREE blocks is one FREE block of the run's sizes plus the absorbed headers.
C6_Coalesce ==
  [][Returned("combine")
       => \A bn \in {BNext} : bn = Merged(B) /\ NoAdjacentFree(bn)]_vars

\* C6's case: a run of three FREE blocks of sizes 3, 4, 5 has become one block
C6_Witness ==
  /\ last.op = "combine"
  /\ Shown = <<<<"FREE", U64(3 + 4 + 5 + 2 * meta_data_size)>>>>

\* C7: no block fits and the last block is FREE with size L < n: an allocate(n)
\* whose growth fits grows the break by n - L, makes that block OCCUPIED with
\* size n, returns its payload and adds no block.
C7_GrowthReuse ==
  [][Returned("malloc") =>
       \A bs \in {B} :
         (FitSet(bs, last'.size) = {} /\ bs # <<>> /\ IsFree(bs[Len(bs)])
            /\ Growth(bs, last'.size) <= heap_end - heap_current_break)
           => LET n == last'.size
                  b == bs[Len(bs)]
              IN  /\ heap_current_break' = heap_current_break + (n - b.size[1])
                  /\ BNext = [bs EXCEPT ![Len(bs)] = [addr |-> b.addr, size |-> U64(n),
                                                      status |-> META_DATA_STATUS_OCCUPIED]]
                  /\ last'.ret = b.addr + meta_data_size]_vars

\* C7's case: the trailing FREE block of size 2 has been grown for allocate(10)
C7_Witness ==
  /\ last.op = "malloc" /\ last.size = 10 /\ last.path = "grow"
  /\ Shown = <<<<"OCCP", U64(10)>>>>
  /\ heap_current_break = heap_start + meta_data_size + 10

\* the steps of the scenario allocate(10)->A, allocate(5)->B, free(A), ...
Scenario1 ==
  (i = 0 /\ Returned("malloc") /\ last'.size = 10)
    => ShownNext = <<<<"OCCP", U64(10)>>>>
Scenario2 ==
  (i = 1 /\ Shown = <<<<"OCCP", U64(10)>>>> /\ Returned("malloc") /\ last'.size = 5)
    => ShownNext = <<<<"OCCP", U64(10)>>, <<"OCCP", U64(5)>>>>
Scenario3 ==
  (i = 2 /\ Shown = <<<<"OCCP", U64(10)>>, <<"OCCP", U64(5)>>>>
     /\ Returned("free") /\ last'.ret = heap_start + meta_data_size)
    => ShownNext = <<<<"FREE", U64(10)>>, <<"OCCP", U64(5)>>>>
ScenarioAt4 ==
  /\ i = 3 /\ Shown = <<<<"FREE", U64(10)>>, <<"OCCP", U64(5)>>>>
  /\ Returned("malloc") /\ last'.size = 3

\* C8 as the spec has it: step 4 splits A into OCCUPIED 3 and FREE 10 - 3 - H,
\* and step 5 leaves the list as it is.
C8_ScenarioSplit ==
  [][/\ Scenario1 /\ Scenario2 /\ Scenario3
     /\ ScenarioAt4 =>
          ShownNext = <<<<"OCCP", U64(3)>>,
                        <<"FREE", Sub64(U64(10), U64(3 + meta_data_size))>>,
                        <<"OCCP", U64(5)>>>>
     /\ (i = 4 /\ last.op = "malloc" /\ last.size = 3 /\ Returned("combine"))
          => ShownNext = Shown]_vars

\* C8 amended: with H = 9 the block of size 10 is not larger than 3 + H, so
\* step 4 takes A whole (OCCUPIED, size 10) and step 5 changes nothing.
C8_ScenarioWhole ==
  [][/\ Scenario1 /\ Scenario2 /\ Scenario3
     /\ ScenarioAt4 => ShownNext = <<<<"OCCP", U64(10)>>, <<"OCCP", U64(5)>>>>
     /\ (i = 4 /\ last.op = "malloc" /\ last.size = 3 /\ Returned("combine"))
          => ShownNext = Shown]_vars

\* C8's case: step 4 of the scenario has run
C8_Witness ==
  /\ i = 4 /\ last.op = "malloc" /\ last.size = 3 /\ last.path = "reuse"
  /\ last.ret = heap_start + meta_data_size
  /\ Shown = <<<<"OCCP", U64(10)>>, <<"OCCP", U64(5)>>>>

\* C9: a coalesce right after a coalesce changes neither what mm_print shows
\* nor the break.
C9_Idempotent ==
  [][(last.op = "combine" /\ Returned("combine"))
       => (ShownNext = Shown /\ heap_current_break' = heap_current_break)]_vars

\* C9's case: the second of two coalesces in a row, the first of which had merged blocks
C9_Witness ==
  /\ last.op = "combine" /\ last.path = "again"
  /\ Shown = <<<<"FREE", U64(2 + 2 + meta_data_size)>>>>

\* C10: once the arena exists mm_sbrk(delta) succeeds exactly when
\* heap_start <= break + delta <= heap_end; it then moves the break by delta
\* and returns the old break; otherwise it returns MAP_FAILED and leaves the break.
C10_SbrkContract ==
  [][Returned("sbrk")
       => LET delta == last'.size
              ok == /\ heap_start # NULL
                    /\ heap_start <= heap_current_break + delta
                    /\ heap_current_break + delta <= heap_end
          IN  IF ok
                THEN /\ heap_current_break' = heap_current_break + delta
                     /\ last'.ret = heap_current_break
                ELSE /\ heap_current_break' = heap_current_break
                     /\ last'.ret = MAP_FAILED]_vars

\* C10's case: a shrink that mm_sbrk accepted, returning the break it found
C10_Witness ==
  /\ last.op = "sbrk" /\ last.size < 0
  /\ last.ret = heap_current_break - last.size

\* the names whose pointer is the payload of the block b
Holders(b) == {n \in Names : pointers[n] = b.addr + meta_data_size}

\* C11: free(p) on a live handle sets the status of p's block to FREE and
\* nothing else: the list keeps its length, every address and size, every
\* other status, and the break; a second mm_free of p would change nothing.
C11_FreeLocal ==
  [][Returned("free") =>
       \A bs \in {B} : \A bn \in {BNext} :
         /\ heap_current_break' = heap_current_break
         /\ Len(bn) = Len(bs)
         /\ \A k \in 1..Len(bs) :
              /\ bn[k].addr = bs[k].addr
              /\ bn[k].size = bs[k].size
              /\ bn[k].status = IF bs[k].addr + meta_data_size = last'.ret
                                  THEN META_DATA_STATUS_FREE ELSE bs[k].status
         /\ mm_free(mem', last'.ret) = mem']_vars

\* C11's case: the middle one of three OCCUPIED blocks has been freed
C11_Witness ==
  /\ last.op = "free" /\ Len(B) = 3
  /\ last.ret = B[2].addr + meta_data_size
  /\ IsOccupied(B[1]) /\ IsFree(B[2]) /\ IsOccupied(B[3])

\* where the block b ends: its header, then size bytes
BlockEnd(b) == PtrAdd(b.addr, Add64(U64(meta_data_size), b.size))

\* C12: the blocks of the list lie inside [heap_start, heap_current_break)
\* and no two of them share a byte.
C12_NoOverlap ==
  pc # "start" =>
    \A bs \in {B} :
      \A k \in 1..Len(bs) :
        /\ heap_start <= bs[k].addr
        /\ bs[k].addr < BlockEnd(bs[k])
        /\ BlockEnd(bs[k]) <= heap_current_break
        /\ \A j \in 1..(k - 1) : BlockEnd(bs[j]) <= bs[k].addr

\* C13: a malloc on a bound name and a free on an unbound name are refused
\* and change nothing; the engine's free gets an address that a name holds,
\* and the name is cleared; the engine's malloc is called for an unbound name.
C13_HostChecks ==
  [][/\ (Returned("malloc_error") \/ Returned("free_error"))
          => UNCHANGED <<mem, heap_current_break, pointers>>
     /\ Returned("malloc_error") => Bound # {}
     /\ Returned("free_error") => Bound # Names
     /\ Returned("free")
          => /\ last'.ret # NULL
             /\ \E n \in Names :
                  /\ pointers[n] = last'.ret
                  /\ pointers' = [pointers EXCEPT ![n] = NULL]
     /\ Returned("malloc")
          => \E n \in Names :
               /\ pointers[n] = NULL
               /\ pointers' = [pointers EXCEPT ![n] = last'.ret]]_vars

\* C13's case: a free on an unbound name has been refused while another name is bound
C13_Witness ==
  /\ last.op = "free_error" /\ Bound # {} /\ B # <<>>

\* C14: no block fits, the list is empty or ends with an OCCUPIED block, and
\* n + meta_data_size bytes are left: allocate(n) moves the break by
\* n + meta_data_size, writes a header with size n and OCCUPIED at the old
\* break, returns the address after it, and leaves the size and status of
\* every block of the list as they were; a contiguous list gets the new
\* block at its end.
C14_FreshAppend ==
  [][Returned("malloc") =>
       \A bs \in {B} : \A n \in {last'.size} :
         (/\ FitSet(bs, n) = {}
          /\ bs = <<>> \/ IsOccupied(bs[Len(bs)])
          /\ n + meta_data_size <= heap_end - heap_current_break)
           => /\ heap_current_break' = heap_current_break + n + meta_data_size
              /\ LoadSize(mem', heap_current_break) = U64(n)
              /\ LoadStatus(mem', heap_current_break) = META_DATA_STATUS_OCCUPIED
              /\ last'.ret = heap_current_break + meta_data_size
              /\ \A k \in 1..Len(bs) :
                   /\ LoadSize(mem', bs[k].addr) = bs[k].size
                   /\ LoadStatus(mem', bs[k].addr) = bs[k].status
              /\ Contiguous
                   => BNext = Append(bs, [addr |-> heap_current_break, size |-> U64(n),
                                          status |-> META_DATA_STATUS_OCCUPIED])]_vars

\* C14's case: a block of size 5 has been appended behind an OCCUPIED block of size 10
C14_Witness ==
  /\ last.op = "malloc" /\ last.path = "append" /\ last.size = 5
  /\ Shown = <<<<"OCCP", U64(10)>>, <<"OCCP", U64(5)>>>>
  /\ last.ret = heap_start + meta_data_size + 10 + meta_data_size

\* the bytes the blocks of a list cover: the sum of meta_data_size + size
RECURSIVE Span(_)
Span(seq) ==
  IF seq = <<>> THEN U64(0)
  ELSE Add64(Add64(U64(meta_data_size), seq[1].size), Span(Tail(seq)))

\* C15: coalesce leaves every OCCUPIED block where and as it was, leaves the
\* break, turns no FREE block OCCUPIED, and the list covers as many bytes
\* after it as before.
C15_CoalesceFrame ==
  [][Returned("combine") =>
       \A bs \in {B} : \A bn \in {BNext} :
         /\ heap_current_break' = heap_current_break
         /\ \A k \in 1..Len(bs) :
              /\ IsOccupied(bs[k]) => \E j \in 1..Len(bn) : bn[j] = bs[k]
              /\ IsFree(bs[k]) => LoadStatus(mem', bs[k].addr) = META_DATA_STATUS_FREE
         /\ \A j \in 1..Len(bn) :
              IsOccupied(bn[j]) => \E k \in 1..Len(bs) : bs[k] = bn[j]
         /\ Span(bn) = Span(bs)]_vars

\* C15's case: coalesce has merged the two FREE blocks behind an OCCUPIED one
C15_Witness ==
  /\ last.op = "combine" /\ last.path = "first"
  /\ Shown = <<<<"OCCP", U64(2)>>, <<"FREE", U64(2 + 2 + meta_data_size)>>>>
  /\ Cardinality(Holders(B[1])) = 1

\* C16: every block that is OCCUPIED before an allocate(n) is in the list
\* after it, with the same address, size and status; and the last block is
\* grown in place only when it is FREE and smaller than n.
C16_OccupiedKept ==
  [][Did("malloc") =>
       \A bs \in {B} : \A bn \in {BNext} :
         /\ \A k \in 1..Len(bs) :
              IsOccupied(bs[k]) => \E j \in 1..Len(bn) : bn[j] = bs[k]
         /\ last'.path \in {"grow", "grow_failed"}
              => /\ bs # <<>>
                 /\ IsFree(bs[Len(bs)])
                 /\ Gt64(U64(last'.size), bs[Len(bs)].size)]_vars

\* C16's case: allocate(10) with an OCCUPIED last block of size 2 has appended a block
C16_Witness ==
  /\ last.op = "malloc" /\ last.path = "append" /\ last.size = 10
  /\ Shown = <<<<"FREE", U64(2)>>, <<"OCCP", U64(2)>>, <<"OCCP", U64(10)>>>>

\* C17: the break never decreases, and it moves only in an allocate that
\* found no fitting FREE block: not in an allocate that reuses or splits a
\* block, not in a free, not in a coalesce.
C17_BreakMonotone ==
  [][pc # "start" =>
       /\ heap_current_break' >= heap_current_break
       /\ heap_current_break' # heap_current_break
            => /\ last'.op = "malloc"
               /\ last'.path \in {"append", "grow"}
               /\ FitSet(B, last'.size) = {}]_vars

\* C17's case: the break has stayed where a growth had put it, over a free,
\* a coalesce and an allocate that reused the block
C17_Witness ==
  /\ last.op = "malloc" /\ last.path = "reuse" /\ i = 4
  /\ heap_current_break = heap_start + meta_data_size + 10

\* C18: every bound name points to the payload of an OCCUPIED block of the
\* list, no two names to the same block, and every OCCUPIED block of the
\* list has a name.
C18_LiveHandles ==
  pc = "run" =>
    \A bs \in {B} :
      /\ \A n \in Bound :
           \E k \in 1..Len(bs) :
             pointers[n] = bs[k].addr + meta_data_size /\ IsOccupied(bs[k])
      /\ \A k \in 1..Len(bs) :
           IsOccupied(bs[k]) => Cardinality(Holders(bs[k])) = 1
      /\ \A k \in 1..Len(bs) : Cardinality(Holders(bs[k])) <= 1

\* C19: the block an allocate(n) hands out has a size s with
\* n <= s <= n + meta_data_size; s = n after a split or a growth, and s > n
\* only when a FREE block of that size was taken whole.
C19_BoundedSlack ==
  [][(Did("malloc") /\ last'.fault # "call") =>
       \A n \in {U64(last'.size)} :
       \A s \in {LoadSize(mem', last'.ret - meta_data_size)} :
         /\ Ge64(s, n)
         /\ Ge64(Add64(n, U64(meta_data_size)), s)
         /\ last'.path # "reuse" => s = n
         /\ s # n
              => /\ last'.path = "reuse"
                 /\ LoadSize(mem, last'.ret - meta_data_size) = s
                 /\ LoadStatus(mem, last'.ret - meta_data_size) = META_DATA_STATUS_FREE]_vars

\* C19's case: a FREE block of size 10 has been handed out whole for allocate(3)
C19_Witness ==
  /\ last.op = "malloc" /\ last.size = 3 /\ last.path = "reuse"
  /\ LoadSize(mem, last.ret - meta_data_size) = U64(10)
  /\ LoadStatus(mem, last.ret - meta_data_size) = META_DATA_STATUS_OCCUPIED

=============================================================================
